---- MODULE Spec2Model ----
(***************************************************************************)
(* A model of build_page.py, the static page builder of the product        *)
(* shortlist template.                                                     *)
(*                                                                         *)
(* Texts are sequences of symbols.  A symbol is a single character ("&",   *)
(* "/", " ") or an indivisible run of characters that no operation of the  *)
(* program looks into (a word such as "tag" or "http", one percent escape  *)
(* such as "%26", a file extension such as ".png").                        *)
(***************************************************************************)
EXTENDS Integers, Sequences, FiniteSets, TLC

(***************************************************************************)
(* Bounds of the model.                                                    *)
(***************************************************************************)
MaxItems == 2
MaxTagList == 3
MaxText == 3
MaxQuery == 3
MaxPrefix == 4
MaxProducts == 2

(***************************************************************************)
(* Module constants of build_page.py.                                      *)
(***************************************************************************)
PLACEHOLDER == <<"assets/placeholder.svg">>
IMG_DIR == <<"assets", "/", "img">>

(***************************************************************************)
(* Text helpers: str.strip, str.replace, str.join.                         *)
(***************************************************************************)
Whitespace == {" "}

\* F(v), with v evaluated once however often the body of F names it.
Once(F(_), v) == CHOOSE r \in {F(x) : x \in {v}} : TRUE

\* The first position from k on, and the last position up to k, that holds
\* no whitespace (Len(s) + 1 and 0 when there is none).
RECURSIVE FirstInk(_, _)
FirstInk(s, k) ==
    IF k > Len(s) THEN k
    ELSE IF s[k] \notin Whitespace THEN k
    ELSE FirstInk(s, k + 1)

RECURSIVE LastInk(_, _)
LastInk(s, k) ==
    IF k < 1 THEN k
    ELSE IF s[k] \notin Whitespace THEN k
    ELSE LastInk(s, k - 1)

LStrip(s) ==
    LET F(v) == SubSeq(v, FirstInk(v, 1), Len(v)) IN Once(F, s)

Strip(s) ==
    LET F(v) == SubSeq(v, FirstInk(v, 1), LastInk(v, Len(v))) IN Once(F, s)

RECURSIVE ReplaceFrom(_, _, _, _)
ReplaceFrom(s, ch, repl, k) ==
    IF k > Len(s) THEN <<>>
    ELSE (IF s[k] = ch THEN repl ELSE <<s[k]>>) \o ReplaceFrom(s, ch, repl, k + 1)

\* s.replace(ch, repl)
Replace(s, ch, repl) ==
    LET F(v) == ReplaceFrom(v, ch, repl, 1) IN Once(F, s)

RECURSIVE JoinFrom(_, _, _)
JoinFrom(sep, ss, k) ==
    IF k > Len(ss) THEN <<>>
    ELSE IF k = Len(ss) THEN ss[k]
    ELSE ss[k] \o sep \o JoinFrom(sep, ss, k + 1)

\* sep.join(ss)
Join(sep, ss) == LET F(v) == JoinFrom(sep, v, 1) IN Once(F, ss)

\* "".join(ss)
Concat(ss) == Join(<<>>, ss)

Range(s) == {s[k] : k \in 1..Len(s)}

SeqsUpTo(S, n) == UNION {[1..k -> S] : k \in 0..n}

(***************************************************************************)
(* esc: five replacements in sequence, the ampersand first.                *)
(***************************************************************************)
AMP == <<"&", "a", "m", "p", ";">>
LT == <<"&", "l", "t", ";">>
GT == <<"&", "g", "t", ";">>
QUOT == <<"&", "q", "u", "o", "t", ";">>
APOS == <<"&", "#", "3", "9", ";">>

escAmpLast(s) ==
    Replace(Replace(Replace(Replace(Replace(s, "<", LT), ">", GT),
                            "\"", QUOT), "'", APOS), "&", AMP)

esc(s) ==
    Replace(Replace(Replace(Replace(Replace(s, "&", AMP), "<", LT),
                            ">", GT), "\"", QUOT), "'", APOS)

(***************************************************************************)
(* JSON values as the program sees them after json.loads.  t is the        *)
(* Python type, s the text of a str, n the number of an int, l the         *)
(* elements of a list (each element again a value with an empty l).        *)
(***************************************************************************)
Missing == [t |-> "missing", s |-> <<>>, n |-> 0, l |-> <<>>]
Null == [t |-> "null", s |-> <<>>, n |-> 0, l |-> <<>>]
Str(x) == [t |-> "str", s |-> x, n |-> 0, l |-> <<>>]
Num(k) == [t |-> "num", s |-> <<>>, n |-> k, l |-> <<>>]
List(xs) == [t |-> "list", s |-> <<>>, n |-> 0, l |-> xs]

\* Python truthiness: None, "", 0 and [] are falsy; dict.get of a missing
\* key gives None.
Truthy(v) ==
    CASE v.t = "str" -> v.s # <<>>
      [] v.t = "num" -> v.n # 0
      [] v.t = "list" -> v.l # <<>>
      [] OTHER -> FALSE

\* `v or d`
Or(v, d) == IF Truthy(v) THEN v ELSE d

\* str(x) of a list element
PyStr(x) ==
    CASE x.t = "str" -> x.s
      [] x.t = "num" -> IF x.n = 0 THEN <<"0">> ELSE <<"7">>
      [] x.t = "null" -> <<"None">>
      [] OTHER -> <<"[", "]">>

(***************************************************************************)
(* Raw product records.  An entry of the products array is a mapping with  *)
(* the six optional keys, or some other JSON value (is_map = FALSE).       *)
(***************************************************************************)
Record(asin, name, desc, img, url, bf) ==
    [is_map |-> TRUE, amazon_asin |-> asin, product_name |-> name,
     description |-> desc, image_url |-> img, amazon_url |-> url,
     best_for |-> bf]

NotMapping ==
    [is_map |-> FALSE, amazon_asin |-> Missing, product_name |-> Missing,
     description |-> Missing, image_url |-> Missing, amazon_url |-> Missing,
     best_for |-> Missing]

\* f"https://www.amazon.com/dp/{asin}"
DefaultUrl(asin) ==
    <<"https", ":", "/", "/", "www.amazon.com", "/", "dp", "/">> \o asin

\* `(v or "").strip()` raises AttributeError when v is truthy and not a str.
StripRaises(v) == Truthy(v) /\ v.t # "str"

\* `(v or d).strip()` where it does not raise
OrStrip(v, d) == Strip(Or(v, Str(d)).s)

\* best_for after lines 58-62: a str is wrapped, a non-list becomes [].
BestForList(v) ==
    LET b == Or(v, List(<<>>))
    IN CASE b.t = "str" -> <<b>>
         [] b.t = "list" -> b.l
         [] OTHER -> <<>>

RECURSIVE NonBlankFrom(_, _)
NonBlankFrom(xs, k) ==
    IF k > Len(xs) THEN <<>>
    ELSE LET F(t) == IF t # <<>> THEN <<t>> ELSE <<>>
         IN Once(F, Strip(PyStr(xs[k]))) \o NonBlankFrom(xs, k + 1)

NonBlank(xs) == LET F(v) == NonBlankFrom(v, 1) IN Once(F, xs)

\* xs[:k]
Take(xs, k) ==
    LET F(v) == SubSeq(v, 1, IF Len(v) < k THEN Len(v) ELSE k) IN Once(F, xs)

BestForNoCap(v) == NonBlank(BestForList(v))

\* [str(x).strip() for x in best_for if str(x).strip()][:2]
BestFor(v) == Take(NonBlank(BestForList(v)), 2)

\* The dict appended at lines 64-71.
Product(it, asin) ==
    [asin |-> asin,
     name |-> LET n == OrStrip(it.product_name, <<>>)
              IN IF n = <<>> THEN <<"Product">> ELSE n,
     description |-> OrStrip(it.description, <<>>),
     image_url |-> OrStrip(it.image_url, <<>>),
     amazon_url |-> OrStrip(it.amazon_url, DefaultUrl(asin)),
     best_for |-> BestFor(it.best_for)]

SkipEmptyOnly(asin, seen) == asin = <<>>

\* `if not asin or asin in seen: continue`
Skip(asin, seen) == asin = <<>> \/ asin \in seen

\* One pass of the loop of normalize_products from item k on.  The result
\* is [ok, out]: ok = FALSE when an AttributeError left the function.
RECURSIVE NormalizeFrom(_, _, _, _)
NormalizeFrom(items, k, out, seen) ==
    IF k > Len(items) THEN [ok |-> TRUE, out |-> out]
    ELSE LET it == items[k] IN
      IF ~it.is_map \/ StripRaises(it.amazon_asin)
      THEN [ok |-> FALSE, out |-> <<>>]
      ELSE LET asin == OrStrip(it.amazon_asin, <<>>) IN
        IF Skip(asin, seen)
        THEN NormalizeFrom(items, k + 1, out, seen)
        ELSE IF \/ StripRaises(it.product_name)
                \/ StripRaises(it.description)
                \/ StripRaises(it.image_url)
                \/ StripRaises(it.amazon_url)
             THEN [ok |-> FALSE, out |-> <<>>]
             ELSE NormalizeFrom(items, k + 1, Append(out, Product(it, asin)),
                                seen \cup {asin})

normalize_products(items) == NormalizeFrom(items, 1, <<>>, {})

(***************************************************************************)
(* tags_html: at most two pills, each an escaped tag in a span.            *)
(***************************************************************************)
SPAN_OPEN == "<span class=\"tag\">"
SPAN_CLOSE == "</span>"

Pill(t) == <<SPAN_OPEN>> \o esc(t) \o <<SPAN_CLOSE>>

tags_html(tags) ==
    LET F(v) ==
          IF v = <<>> THEN <<>>
          ELSE LET G(two) ==
                     <<"<div class=\"tags\">">>
                     \o Concat([k \in 1..Len(two) |-> Pill(two[k])])
                     \o <<"</div>">>
               IN Once(G, Take(v, 2))
    IN Once(F, tags)

(***************************************************************************)
(* urllib.parse as CPython 3.11 implements it, over symbols: urlparse,     *)
(* parse_qsl(keep_blank_values=True), urlencode(doseq=True), urlunparse.   *)
(***************************************************************************)
\* Index of the first symbol of s that is in S, from position `from` on;
\* Len(s) + 1 when there is none (str.find, 1-based).
RECURSIVE Find(_, _, _)
Find(s, S, from) ==
    IF from > Len(s) THEN Len(s) + 1
    ELSE IF s[from] \in S THEN from
    ELSE Find(s, S, from + 1)

RECURSIVE RFind(_, _, _)
RFind(s, S, from) ==
    IF from < 1 THEN 0
    ELSE IF s[from] \in S THEN from
    ELSE RFind(s, S, from - 1)

Before(s, k) == SubSeq(s, 1, k - 1)
After(s, k) == SubSeq(s, k + 1, Len(s))

\* Percent escapes of the reserved characters of the model.
Reserved == {"&", "=", "+", "%", "?", "/", ":", ";", "#", "<", ">", "\"", "'"}
PctOf ==
    [c \in Reserved |->
       CASE c = "&" -> "%26" [] c = "=" -> "%3D" [] c = "+" -> "%2B"
         [] c = "%" -> "%25" [] c = "?" -> "%3F" [] c = "/" -> "%2F"
         [] c = ":" -> "%3A" [] c = ";" -> "%3B" [] c = "#" -> "%23"
         [] c = "<" -> "%3C" [] c = ">" -> "%3E" [] c = "\"" -> "%22"
         [] c = "'" -> "%27"]
PctEscapes == {PctOf[c] : c \in Reserved} \cup {"%20"}

\* Symbols that are not a run of letters: they cannot start a scheme.
NotAlpha == Reserved \cup PctEscapes \cup Whitespace \cup {"0", "7", ".png", ".PNG", ".jpeg", ".jpg", ".img"}
SchemeChar(c) == c \notin (NotAlpha \ {"+"})

Lower(c) ==
    CASE c = "A" -> "a" [] c = "B" -> "b" [] c = ".PNG" -> ".png"
      [] c = "IMAGE/JPEG" -> "image/jpeg" [] OTHER -> c

\* The members of uses_netloc and uses_params that the model's URLs can have.
uses_netloc == {<<>>, <<"http">>, <<"https">>}
uses_params == {<<>>, <<"http">>, <<"https">>}

\* urlsplit after the scheme: netloc, then fragment, then query
SplitRest(scheme, rest) ==
    LET hasNetloc == Len(rest) >= 2 /\ rest[1] = "/" /\ rest[2] = "/"
        delim == Find(rest, {"/", "?", "#"}, 3)
        F(url) ==
          LET h == Find(url, {"#"}, 1)
              G(nofrag) ==
                [scheme |-> scheme,
                 netloc |-> IF hasNetloc THEN SubSeq(rest, 3, delim - 1) ELSE <<>>,
                 path |-> Before(nofrag, Find(nofrag, {"?"}, 1)),
                 query |-> After(nofrag, Find(nofrag, {"?"}, 1)),
                 fragment |-> After(url, h)]
          IN Once(G, Before(url, h))
    IN Once(F, IF hasNetloc THEN SubSeq(rest, delim, Len(rest)) ELSE rest)

\* urlsplit: leading whitespace is dropped; a scheme is a run of scheme
\* characters that starts with a letter and ends at the first ":".
urlsplit(url0) ==
    LET F(url) ==
          LET i == Find(url, {":"}, 1)
              hasScheme == /\ i > 1 /\ i <= Len(url)
                           /\ url[1] \notin NotAlpha
                           /\ \A k \in 1..(i - 1) : SchemeChar(url[k])
              G(x) == SplitRest(x.scheme, x.rest)
          IN Once(G, IF hasScheme
                     THEN [scheme |-> [k \in 1..(i - 1) |-> Lower(url[k])],
                           rest |-> After(url, i)]
                     ELSE [scheme |-> <<>>, rest |-> url])
    IN Once(F, LStrip(url0))

\* _splitparams: the first ";" of the last path segment
splitparams(url) ==
    LET slash == RFind(url, {"/"}, Len(url))
        i == Find(url, {";"}, IF slash = 0 THEN 1 ELSE slash)
    IN [path |-> Before(url, i), params |-> After(url, i)]

urlparse(url) ==
    LET F(u) ==
          LET G(sp) ==
                [scheme |-> u.scheme, netloc |-> u.netloc, path |-> sp.path,
                 params |-> sp.params, query |-> u.query,
                 fragment |-> u.fragment]
          IN Once(G, IF u.scheme \in uses_params /\ ";" \in Range(u.path)
                     THEN splitparams(u.path)
                     ELSE [path |-> u.path, params |-> <<>>])
    IN Once(F, urlsplit(url))

\* urlunsplit of CPython 3.11: "//" is written only for a netloc, or for a
\* netloc scheme whose path does not already start with "//".
urlunsplit(scheme, netloc, path0, query, fragment) ==
    LET F(path) ==
          LET startsSS == Len(path) >= 2 /\ path[1] = "/" /\ path[2] = "/"
          IN (IF scheme # <<>> THEN scheme \o <<":">> ELSE <<>>)
             \o (IF netloc # <<>>
                    \/ (scheme # <<>> /\ scheme \in uses_netloc /\ ~startsSS)
                 THEN <<"/", "/">> \o netloc
                      \o (IF path # <<>> /\ path[1] # "/" THEN <<"/">> ELSE <<>>)
                      \o path
                 ELSE path)
             \o (IF query # <<>> THEN <<"?">> \o query ELSE <<>>)
             \o (IF fragment # <<>> THEN <<"#">> \o fragment ELSE <<>>)
    IN Once(F, path0)

urlunparse(scheme, netloc, path, params, query, fragment) ==
    urlunsplit(scheme, netloc,
               IF params # <<>> THEN path \o <<";">> \o params ELSE path,
               query, fragment)

\* unquote(s.replace("+", " ")) of one symbol
Unquote(c) ==
    IF c = "+" \/ c = "%20" THEN " "
    ELSE IF \E r \in Reserved : PctOf[r] = c
         THEN CHOOSE r \in Reserved : PctOf[r] = c
         ELSE c

\* quote_plus of one symbol
QuotePlus(c) ==
    IF c = " " THEN "+" ELSE IF c \in Reserved THEN PctOf[c] ELSE c

UnquoteText(s) == LET F(v) == [k \in 1..Len(v) |-> Unquote(v[k])] IN Once(F, s)
QuotePlusText(s) == LET F(v) == [k \in 1..Len(v) |-> QuotePlus(v[k])] IN Once(F, s)

\* str.split(sep)
RECURSIVE Split(_, _)
Split(s, sep) ==
    LET F(v) ==
          LET i == Find(v, {sep}, 1)
          IN IF i > Len(v) THEN <<v>>
             ELSE <<Before(v, i)>> \o Split(After(v, i), sep)
    IN Once(F, s)

\* One name=value field of parse_qsl: split at the first "=", a field
\* without "=" has the blank value.
Field(nv) ==
    LET i == Find(nv, {"="}, 1)
    IN [k |-> UnquoteText(Before(nv, i)), v |-> UnquoteText(After(nv, i))]

RECURSIVE FieldsFrom(_, _)
FieldsFrom(pairs, n) ==
    IF n > Len(pairs) THEN <<>>
    ELSE (IF pairs[n] = <<>> THEN <<>> ELSE <<Field(pairs[n])>>)
         \o FieldsFrom(pairs, n + 1)

\* parse_qsl(qs, keep_blank_values=True): empty fields are skipped
parse_qsl(qs) ==
    LET F(v) == IF v = <<>> THEN <<>>
                ELSE LET G(pairs) == FieldsFrom(pairs, 1)
                     IN Once(G, Split(v, "&"))
    IN Once(F, qs)

\* d[k] = v on an insertion-ordered dict held as a sequence of items
DictSet(d0, k, v) ==
    LET F(d) ==
          IF \E i \in 1..Len(d) : d[i].k = k
          THEN [i \in 1..Len(d) |-> IF d[i].k = k THEN [k |-> k, v |-> v] ELSE d[i]]
          ELSE Append(d, [k |-> k, v |-> v])
    IN Once(F, d0)

RECURSIVE DictFrom(_, _, _)
DictFrom(pairs, n, d) ==
    IF n > Len(pairs) THEN d
    ELSE DictFrom(pairs, n + 1, DictSet(d, pairs[n].k, pairs[n].v))

dict(pairs) == LET F(v) == DictFrom(v, 1, <<>>) IN Once(F, pairs)

urlencode(q0) ==
    LET F(q) ==
          Join(<<"&">>, [i \in 1..Len(q) |->
                           QuotePlusText(q[i].k) \o <<"=">> \o QuotePlusText(q[i].v)])
    IN Once(F, q0)

TAG == <<"tag">>

with_affiliate_tag(url, tag) ==
    LET F(u) ==
          urlunparse(u.scheme, u.netloc, u.path, u.params,
                     urlencode(DictSet(dict(parse_qsl(u.query)), TAG, tag)),
                     u.fragment)
    IN Once(F, urlparse(url))

(***************************************************************************)
(* load_config defaults, build_intro, card and the page.  The fixed markup *)
(* of a card and of the page is left out: a card and a page are records    *)
(* of the fragments that the f-strings and HTML.format put into it.        *)
(***************************************************************************)
DEFAULT_TITLE == <<"Product shortlist">>
DEFAULT_DESCRIPTION == <<"A simple shortlist of products.">>

Config(title, desc, intro, note, prods) ==
    [title |-> title, description |-> desc, intro_paragraphs |-> intro,
     meta_note |-> note, products |-> prods]

\* dict.setdefault: only an absent key takes the default
SetDefault(v, d) == IF v.t = "missing" THEN d ELSE v

load_defaults(cfg) ==
    [title |-> SetDefault(cfg.title, Str(DEFAULT_TITLE)),
     description |-> SetDefault(cfg.description, Str(DEFAULT_DESCRIPTION)),
     intro_paragraphs |-> SetDefault(cfg.intro_paragraphs, List(<<>>)),
     meta_note |-> SetDefault(cfg.meta_note, Str(<<>>)),
     products |-> cfg.products]

\* str(cfg.get("title") or "Product shortlist").strip()
Title(cfg) == Strip(PyStr(Or(cfg.title, Str(DEFAULT_TITLE))))
\* str(cfg.get("description") or "").strip()
Description(cfg) == Strip(PyStr(Or(cfg.description, Str(<<>>))))

P_OPEN == "<p>"
P_META_OPEN == "<p class=\"meta\">"
P_CLOSE == "</p>"
NEWLINE == "\n"

RECURSIVE IntroParts(_)
IntroParts(ps) ==
    IF ps = <<>> THEN <<>>
    ELSE LET p == Strip(PyStr(Head(ps)))
         IN (IF p # <<>> THEN <<(<<P_OPEN>> \o esc(p) \o <<P_CLOSE>>)>> ELSE <<>>)
            \o IntroParts(Tail(ps))

build_intro(intro_paragraphs, meta_note) ==
    LET note == Strip(PyStr(meta_note))
        parts == IntroParts(intro_paragraphs)
                 \o (IF Truthy(meta_note) /\ note # <<>>
                     THEN <<(<<P_META_OPEN>> \o esc(note) \o <<P_CLOSE>>)>>
                     ELSE <<>>)
    IN Join(<<NEWLINE>>, parts)

\* Lines 202-222 of card: the fragments of one card, given the affiliate
\* URL and the image source that lines 196-200 produced.
CardHtml(p, url, src0) ==
    LET src == IF src0 = <<>> THEN PLACEHOLDER ELSE src0
    IN [img_src |-> esc(src), img_alt |-> esc(p.name), name |-> esc(p.name),
        tags |-> tags_html(p.best_for), desc |-> esc(p.description),
        href |-> esc(url)]

\* card when CACHE_IMAGES is off
card(p, partner_tag) ==
    CardHtml(p, with_affiliate_tag(p.amazon_url, partner_tag), p.image_url)

\* HTML.format(...), lines 240-247
Page(cfg, cards, updated) ==
    [title |-> esc(Title(cfg)), desc |-> esc(Description(cfg)),
     h1 |-> esc(Title(cfg)),
     intro |-> build_intro(cfg.intro_paragraphs.l, cfg.meta_note),
     updated |-> updated, cards |-> cards]

(***************************************************************************)
(* _safe_ext and cache_image.  A response of requests.get is               *)
(* [kind, status, body, ctype]: kind "exception" for a transport error,    *)
(* body FALSE for empty content, ctype the Content-Type header (has =      *)
(* FALSE when there is none).  A write of a file either succeeds, fails    *)
(* before the file is opened, or fails after open() truncated it.          *)
(***************************************************************************)
NoHeader == [has |-> FALSE, s |-> <<>>]
Header(x) == [has |-> TRUE, s |-> x]

ExtSyms == {".png", ".jpg", ".jpeg", ".webp", ".avif", ".gif"}

\* re.search(r"\.(png|jpe?g|webp|avif|gif)(?:\?|$)", url.lower())
RECURSIVE ExtMatch(_, _)
ExtMatch(url, k) ==
    IF k > Len(url) THEN 0
    ELSE IF Lower(url[k]) \in ExtSyms /\ (k = Len(url) \/ url[k + 1] = "?") THEN k
    ELSE ExtMatch(url, k + 1)

safe_ext(url, content_type) ==
    LET ct == IF content_type.has /\ content_type.s # <<>>
              THEN LET h == Strip(Head(Split(content_type.s, ";")))
                   IN [k \in 1..Len(h) |-> Lower(h[k])]
              ELSE <<>>
        m == ExtMatch(url, 1)
    IN CASE ct = <<"image/png">> -> ".png"
         [] ct \in {<<"image/jpeg">>, <<"image/jpg">>} -> ".jpg"
         [] ct = <<"image/webp">> -> ".webp"
         [] ct = <<"image/avif">> -> ".avif"
         [] ct = <<"image/gif">> -> ".gif"
         [] OTHER -> IF m > 0
                     THEN (IF Lower(url[m]) = ".jpeg" THEN ".jpg" ELSE Lower(url[m]))
                     ELSE ".img"

Responses ==
    {[kind |-> "exception", status |-> 0, body |-> FALSE, ctype |-> NoHeader],
     [kind |-> "response", status |-> 404, body |-> TRUE, ctype |-> NoHeader],
     [kind |-> "response", status |-> 200, body |-> FALSE, ctype |-> NoHeader],
     [kind |-> "response", status |-> 200, body |-> TRUE, ctype |-> NoHeader],
     [kind |-> "response", status |-> 200, body |-> TRUE,
      ctype |-> Header(<<" ", "IMAGE/JPEG", ";", "q">>)],
     [kind |-> "response", status |-> 200, body |-> TRUE,
      ctype |-> Header(<<"text/html">>)]}
WriteOutcomes == {"ok", "fail_open", "fail_partial"}

\* Path.write_bytes / Path.write_text on the file `path`
WriteFile(files, path, how) ==
    CASE how = "ok" ->
           {f \in files : f.path # path} \cup {[path |-> path, state |-> "full"]}
      [] how = "fail_partial" ->
           {f \in files : f.path # path} \cup {[path |-> path, state |-> "partial"]}
      [] OTHER -> files

MkdirRaises(dir) == dir = "blocked"

\* cache_image in the world (dir, files) where requests.get answers resp and
\* the write of the local file goes as `how`.  The result names what the
\* call returned or that it raised, and the world it left.
cache_image(asin, remote_url, dir, files, resp, how) ==
    LET same == [outcome |-> "placeholder", url |-> remote_url,
                 returned |-> PLACEHOLDER, raised |-> FALSE, wrote |-> FALSE,
                 requested |-> FALSE, dir |-> dir, files |-> files]
        local == IMG_DIR \o <<"/">> \o asin \o <<safe_ext(remote_url, resp.ctype)>>
    IN IF remote_url = <<>> THEN same
       ELSE IF MkdirRaises(dir)
       THEN [same EXCEPT !.outcome = "mkdir_failed", !.returned = <<>>,
                         !.raised = TRUE]
       ELSE IF resp.kind = "exception"
       THEN [same EXCEPT !.outcome = "exception", !.returned = remote_url,
                         !.requested = TRUE, !.dir = "dir"]
       ELSE IF resp.status # 200 \/ ~resp.body
       THEN [same EXCEPT !.outcome = IF resp.status # 200 THEN "bad_status"
                                     ELSE "empty_body",
                         !.returned = remote_url, !.requested = TRUE,
                         !.dir = "dir"]
       ELSE [same EXCEPT !.outcome = IF how = "ok" THEN "saved" ELSE "write_failed",
                         !.returned = IF how = "ok" THEN local ELSE remote_url,
                         !.wrote = (how # "fail_open"),
                         !.requested = TRUE, !.dir = "dir",
                         !.files = WriteFile(files, local, how)]

(***************************************************************************)
(* State.                                                                  *)
(*   n_*  one call of normalize_products followed by the cards of its      *)
(*        output                                                           *)
(*   u_*  with_affiliate_tag applied once and twice to one URL             *)
(*   e_*  one rendering of a page whose texts are all the same text        *)
(*   the rest: one run of main with its environment, file system and       *)
(*   network                                                               *)
(***************************************************************************)
VARIABLES n_items, n_result, n_cards, n_pc,
          u_url, u_tag, u_once, u_twice, u_pc,
          e_cfg, e_products, e_page, e_pc,
          env_tag, CACHE_IMAGES, config_file, config_json, cfg, partner_tag,
          products, cards, idx, http_log, img_dir, img_files, index_html,
          products_json, pc, exit_code, failure, cfg_read, last_fetch

normVars == <<n_items, n_result, n_cards, n_pc>>
urlVars == <<u_url, u_tag, u_once, u_twice, u_pc>>
escVars == <<e_cfg, e_products, e_page, e_pc>>
envVars == <<env_tag, CACHE_IMAGES, config_file, config_json>>
runVars == <<cfg, partner_tag, products, cards, idx, pc, exit_code, failure, cfg_read>>
worldVars == <<http_log, img_dir, img_files, index_html, products_json, last_fetch>>
mainVars == <<envVars, runVars, worldVars>>
vars == <<normVars, urlVars, escVars, mainVars>>

NoConfig == Config(Missing, Missing, Missing, Missing, <<>>)
NoPage == [title |-> <<>>, desc |-> <<>>, h1 |-> <<>>, intro |-> <<>>,
           updated |-> <<>>, cards |-> <<>>]
NoResult == [ok |-> TRUE, out |-> <<>>]
NoFetch == [outcome |-> "none", url |-> <<>>, returned |-> <<>>,
            raised |-> FALSE, wrote |-> FALSE]
NoFile == [kind |-> "absent", page |-> NoPage, products |-> <<>>, title |-> <<>>]

NormIdle ==
    /\ n_items = <<>> /\ n_result = NoResult /\ n_cards = <<>> /\ n_pc = "idle"
UrlIdle ==
    /\ u_url = <<>> /\ u_tag = <<>> /\ u_once = <<>> /\ u_twice = <<>>
    /\ u_pc = "idle"
EscIdle ==
    /\ e_cfg = NoConfig /\ e_products = <<>> /\ e_page = NoPage /\ e_pc = "idle"
MainIdle ==
    /\ env_tag = Missing /\ CACHE_IMAGES = FALSE /\ config_file = "missing"
    /\ config_json = NoConfig /\ failure = "none"
    /\ cfg = NoConfig /\ partner_tag = <<>> /\ products = <<>> /\ cards = <<>>
    /\ idx = 1 /\ pc = "idle" /\ exit_code = 0 /\ cfg_read = FALSE
    /\ http_log = <<>> /\ img_dir = "absent" /\ img_files = {}
    /\ index_html = NoFile /\ products_json = NoFile /\ last_fetch = NoFetch

(***************************************************************************)
(* normalize_products on bounded inputs, then the cards of its output.     *)
(***************************************************************************)
PartnerTags == {<<"t1">>, <<"a", "&", "b">>}

AsinValues ==
    {Missing, Null, Str(<<>>), Str(<<" ">>), Str(<<"A">>),
     Str(<<" ", "A", " ">>), Str(<<"B">>), Num(7)}
NameValues == {Missing, Str(<<"n1">>), Str(<<" ", "n2">>)}

AsinRecords ==
    {Record(a, n, Missing, Missing, Missing, Missing) :
        a \in AsinValues, n \in NameValues}
    \cup {NotMapping,
          Record(Str(<<"A">>), Num(7), Missing, Missing, Missing, Missing),
          Record(Str(<<"B">>), Missing, Num(7), Null, Missing, Missing),
          Record(Str(<<"B">>), Missing, Str(<<" ", "d">>), Num(7), Missing, Missing),
          Record(Str(<<"A">>), Missing, Null, Str(<<"i", ".png", " ">>),
                 Str(<<" ", "http", ":", "/", "/", "h", "/", "p">>), Missing),
          Record(Str(<<"A">>), Missing, Missing, Missing, Num(7), Missing)}

TagElems ==
    {Str(<<"x">>), Str(<<" ", "y", " ">>), Str(<<" ">>), Str(<<>>), Num(0), Null}
BestForValues ==
    {Missing, Null, Str(<<" ", "x">>), Str(<<" ">>), Num(7), Num(0)}
    \cup {List(l) : l \in SeqsUpTo(TagElems, MaxTagList)}
TagRecords ==
    {Record(Str(<<"A">>), Missing, Missing, Missing, Missing, b) :
        b \in BestForValues}

NormInputs ==
    SeqsUpTo(AsinRecords, MaxItems) \cup {<<r>> : r \in TagRecords}

InitNorm ==
    /\ n_items \in NormInputs
    /\ n_result = NoResult /\ n_cards = <<>> /\ n_pc = "input"
    /\ UrlIdle /\ EscIdle /\ MainIdle

Normalize ==
    /\ n_pc = "input"
    /\ n_result' = normalize_products(n_items)
    /\ n_pc' = IF n_result'.ok THEN "normalized" ELSE "crashed"
    /\ UNCHANGED <<n_items, n_cards, urlVars, escVars, mainVars>>

RenderCards ==
    /\ n_pc = "normalized"
    /\ \E t \in PartnerTags :
         n_cards' = [k \in 1..Len(n_result.out) |-> card(n_result.out[k], t)]
    /\ n_pc' = "rendered"
    /\ UNCHANGED <<n_items, n_result, urlVars, escVars, mainVars>>

NextNorm == Normalize \/ RenderCards
SpecNorm == InitNorm /\ [][NextNorm]_vars

(***************************************************************************)
(* with_affiliate_tag applied once, then again to its own result.          *)
(***************************************************************************)
PrefixSyms == {"http", ":", "/", "h"}
QuerySyms == {"tag", "a", "=", "&", "+", "%26", " "}
BaseUrl == <<"https", ":", "/", "/", "h", "/", "p">>
Fragments == {<<>>, <<"#", "f">>}

UrlInputs ==
    {pre \o <<"?", "a", "=", "a">> : pre \in SeqsUpTo(PrefixSyms, MaxPrefix)}
    \cup {BaseUrl \o <<"?">> \o q \o f :
            q \in SeqsUpTo(QuerySyms, MaxQuery), f \in Fragments}
    \cup {BaseUrl \o <<";", "x">>, BaseUrl \o <<"#", "f">>}

InitUrl ==
    /\ u_url \in UrlInputs /\ u_tag \in PartnerTags
    /\ u_once = <<>> /\ u_twice = <<>> /\ u_pc = "input"
    /\ NormIdle /\ EscIdle /\ MainIdle

ApplyOnce ==
    /\ u_pc = "input"
    /\ u_once' = with_affiliate_tag(u_url, u_tag)
    /\ u_pc' = "once"
    /\ UNCHANGED <<u_url, u_tag, u_twice, normVars, escVars, mainVars>>

ApplyTwice ==
    /\ u_pc = "once"
    /\ u_twice' = with_affiliate_tag(u_once, u_tag)
    /\ u_pc' = "twice"
    /\ UNCHANGED <<u_url, u_tag, u_once, normVars, escVars, mainVars>>

NextUrl == ApplyOnce \/ ApplyTwice
SpecUrl == InitUrl /\ [][NextUrl]_vars

(***************************************************************************)
(* One page whose user-supplied texts are all the same bounded text.       *)
(***************************************************************************)
EscChars == {"&", "<", ">", "\"", "'", "a"}
UPDATED == <<"2026-01-01 00:00 UTC">>

EscConfig(s) ==
    Config(Str(s), Str(s), List(<<Str(s)>>), Str(s),
           <<Record(Str(<<"A">>), Str(s), Str(s), Str(s), Str(s), List(<<Str(s)>>))>>)

InitEsc ==
    /\ \E s \in SeqsUpTo(EscChars, MaxText) : e_cfg = EscConfig(s)
    /\ e_products = <<>> /\ e_page = NoPage /\ e_pc = "input"
    /\ NormIdle /\ UrlIdle /\ MainIdle

EscLoad ==
    /\ e_pc = "input"
    /\ e_products' = normalize_products(e_cfg.products).out
    /\ e_pc' = "loaded"
    /\ UNCHANGED <<e_cfg, e_page, normVars, urlVars, mainVars>>

EscRender ==
    /\ e_pc = "loaded"
    /\ e_page' = Page(load_defaults(e_cfg),
                      [k \in 1..Len(e_products) |-> card(e_products[k], <<"t1">>)],
                      UPDATED)
    /\ e_pc' = "rendered"
    /\ UNCHANGED <<e_cfg, e_products, normVars, urlVars, mainVars>>

NextEsc == EscLoad \/ EscRender
SpecEsc == InitEsc /\ [][NextEsc]_vars

(***************************************************************************)
(* One run of main.  The environment (AMZ_PARTNER_TAG, CACHE_IMAGES, the   *)
(* config file, the images directory, the output files of an earlier run)  *)
(* is chosen in Init; the answers of the network and the fate of every     *)
(* write are chosen when they happen.                                      *)
(***************************************************************************)
TagEnvValues == {Missing, Str(<<>>), Str(<<" ">>), Str(<<" ", "t1">>)}
CacheEnvValues == {Missing, Str(<<"1">>), Str(<<" ", "yes">>), Str(<<"on">>)}
CacheTruthy == {<<"1">>, <<"true">>, <<"TRUE">>, <<"yes">>, <<"YES">>}

\* os.environ.get(name, default).strip()
EnvStrip(v, default) == Strip(IF v.t = "missing" THEN default ELSE v.s)

PartnerTagNoStrip(v) == IF v.t = "missing" THEN <<>> ELSE v.s

\* os.environ.get("AMZ_PARTNER_TAG", "").strip()
PartnerTag(v) == EnvStrip(v, <<>>)

ImageUrl == <<"http", ":", "/", "/", "h", "/", "i", ".PNG">>
ImageUrlNoExt == <<"http", ":", "/", "/", "h", "/", "i">>

MainRecords ==
    {Record(Str(<<"A">>), Str(<<"n1">>), Missing, Missing, Missing,
            List(<<Str(<<"x">>)>>)),
     Record(Str(<<"B">>), Missing, Missing, Str(ImageUrl), Missing, Missing),
     Record(Str(<<" ", "A">>), Missing, Missing, Str(ImageUrlNoExt), Missing, Missing),
     Record(Missing, Missing, Missing, Str(ImageUrl), Missing, Missing),
     Record(Num(7), Missing, Missing, Missing, Missing, Missing)}

MainConfigs ==
    {Config(Missing, Missing, Missing, Missing, ps) :
        ps \in SeqsUpTo(MainRecords, MaxProducts)}
    \cup {Config(Str(<<" ", "T", "&">>), Null, List(<<Str(<<" ", "hi">>), Str(<<" ">>)>>),
                 Str(<<"note">>), <<>>),
          Config(Num(7), Str(<<"d">>), Null, Num(0), <<>>)}

OldFile == [kind |-> "old", page |-> NoPage, products |-> <<>>, title |-> <<>>]
PriorKinds == {"absent", "old"}

Init ==
    /\ env_tag \in TagEnvValues
    /\ \E v \in CacheEnvValues : CACHE_IMAGES = (EnvStrip(v, <<"0">>) \in CacheTruthy)
    /\ config_file \in {"missing", "invalid", "ok"}
    /\ IF config_file = "ok" THEN config_json \in MainConfigs
                             ELSE config_json = NoConfig
    /\ img_dir \in {"absent", "dir", "blocked"}
    /\ index_html \in {NoFile, OldFile}
    /\ products_json = index_html
    /\ img_files = {} /\ http_log = <<>> /\ last_fetch = NoFetch
    /\ cfg = NoConfig /\ partner_tag = <<>> /\ products = <<>> /\ cards = <<>>
    /\ idx = 1 /\ pc = "start" /\ exit_code = 0 /\ failure = "none"
    /\ cfg_read = FALSE
    /\ NormIdle /\ UrlIdle /\ EscIdle

\* An uncaught exception or SystemExit ends the process with a non-zero
\* exit status.
Abort(why) ==
    /\ pc' = "aborted"
    /\ exit_code' = 1
    /\ failure' = why

\* main, lines 226-228
CheckPartnerTag ==
    /\ pc = "start"
    /\ partner_tag' = PartnerTag(env_tag)
    /\ IF partner_tag' = <<>>
       THEN Abort("no_partner_tag")
       ELSE pc' = "load" /\ UNCHANGED <<exit_code, failure>>
    /\ UNCHANGED <<cfg, products, cards, idx, cfg_read, envVars, worldVars,
                   normVars, urlVars, escVars>>

\* load_config, line 230
LoadConfig ==
    /\ pc = "load"
    /\ cfg_read' = TRUE
    /\ IF config_file = "ok"
       THEN /\ cfg' = load_defaults(config_json)
            /\ pc' = "normalize"
            /\ UNCHANGED <<exit_code, failure>>
       ELSE Abort("config") /\ UNCHANGED cfg
    /\ UNCHANGED <<partner_tag, products, cards, idx, envVars, worldVars,
                   normVars, urlVars, escVars>>

\* normalize_products(cfg.get("products", [])), line 231
NormalizeProducts ==
    /\ pc = "normalize"
    /\ LET r == normalize_products(cfg.products)
       IN IF r.ok
          THEN /\ products' = r.out
               /\ pc' = "cards"
               /\ UNCHANGED <<exit_code, failure>>
          ELSE Abort("normalize") /\ UNCHANGED products
    /\ UNCHANGED <<cfg, partner_tag, cards, idx, cfg_read, envVars, worldVars,
                   normVars, urlVars, escVars>>

\* card(p, partner_tag) for the next product of line 234, with the call of
\* cache_image that CACHE_IMAGES asks for.
BuildCard ==
    /\ pc = "cards" /\ idx <= Len(products)
    /\ LET p == products[idx]
           url == with_affiliate_tag(p.amazon_url, partner_tag)
       IN IF ~CACHE_IMAGES
          THEN /\ cards' = Append(cards, CardHtml(p, url, p.image_url))
               /\ idx' = idx + 1
               /\ UNCHANGED <<pc, exit_code, failure, worldVars>>
          ELSE \E resp \in Responses, how \in WriteOutcomes :
                 LET r == cache_image(p.asin, p.image_url, img_dir, img_files,
                                      resp, how)
                 IN /\ last_fetch' = [outcome |-> r.outcome, url |-> r.url,
                                      returned |-> r.returned,
                                      raised |-> r.raised, wrote |-> r.wrote]
                    /\ img_dir' = r.dir
                    /\ img_files' = r.files
                    /\ http_log' = IF r.requested
                                   THEN Append(http_log, [k |-> idx, url |-> r.url])
                                   ELSE http_log
                    /\ IF r.raised
                       THEN Abort("mkdir") /\ UNCHANGED <<cards, idx>>
                       ELSE /\ cards' = Append(cards, CardHtml(p, url, r.returned))
                            /\ idx' = idx + 1
                            /\ UNCHANGED <<pc, exit_code, failure>>
                    /\ UNCHANGED <<index_html, products_json>>
    /\ UNCHANGED <<cfg, partner_tag, products, cfg_read, envVars,
                   normVars, urlVars, escVars>>

\* build_intro iterates intro_paragraphs: a value that is not a list raises.
IntroRaises(c) == c.intro_paragraphs.t # "list"

\* Lines 235-248: the page is formatted and written to index.html.
WriteIndex ==
    /\ pc = "cards" /\ idx > Len(products)
    /\ IF IntroRaises(cfg)
       THEN Abort("intro") /\ UNCHANGED index_html
       ELSE \E how \in WriteOutcomes :
              /\ index_html' =
                   CASE how = "ok" ->
                          [kind |-> "page", page |-> Page(cfg, cards, UPDATED),
                           products |-> <<>>, title |-> <<>>]
                     [] how = "fail_partial" ->
                          [kind |-> "partial", page |-> NoPage,
                           products |-> <<>>, title |-> <<>>]
                     [] OTHER -> index_html
              /\ IF how = "ok"
                 THEN pc' = "write_json" /\ UNCHANGED <<exit_code, failure>>
                 ELSE Abort("index_write")
    /\ UNCHANGED <<cfg, partner_tag, products, cards, idx, cfg_read, envVars,
                   http_log, img_dir, img_files, products_json, last_fetch,
                   normVars, urlVars, escVars>>

WriteProductsBeforeIndex ==
    /\ pc = "cards" /\ idx > Len(products)
    /\ products_json' = [kind |-> "snapshot", page |-> NoPage,
                         products |-> products, title |-> Title(cfg)]
    /\ pc' = "done"
    /\ UNCHANGED <<cfg, partner_tag, products, cards, idx, cfg_read, envVars,
                   exit_code, failure, http_log, img_dir, img_files,
                   index_html, last_fetch, normVars, urlVars, escVars>>

\* Line 249: the snapshot is written to products.json.
WriteProducts ==
    /\ pc = "write_json"
    /\ \E how \in WriteOutcomes :
         /\ products_json' =
              CASE how = "ok" ->
                     [kind |-> "snapshot", page |-> NoPage,
                      products |-> products, title |-> Title(cfg)]
                [] how = "fail_partial" ->
                     [kind |-> "partial", page |-> NoPage,
                      products |-> <<>>, title |-> <<>>]
                [] OTHER -> products_json
         /\ IF how = "ok"
            THEN pc' = "done" /\ UNCHANGED <<exit_code, failure>>
            ELSE Abort("json_write")
    /\ UNCHANGED <<cfg, partner_tag, products, cards, idx, cfg_read, envVars,
                   http_log, img_dir, img_files, index_html, last_fetch,
                   normVars, urlVars, escVars>>

Next ==
    \/ CheckPartnerTag
    \/ LoadConfig
    \/ NormalizeProducts
    \/ BuildCard
    \/ WriteIndex
    \/ WriteProducts

Spec == Init /\ [][Next]_vars

(***************************************************************************)
(* Properties of normalize_products (SpecNorm).                            *)
(***************************************************************************)
Key(it) == OrStrip(it.amazon_asin, <<>>)
NameOf(it) ==
    IF OrStrip(it.product_name, <<>>) = <<>> THEN <<"Product">>
    ELSE OrStrip(it.product_name, <<>>)

\* The positions of the records that carry a trimmed asin for the first time
FirstOcc ==
    {k \in 1..Len(n_items) :
        /\ Key(n_items[k]) # <<>>
        /\ \A m \in 1..(k - 1) : Key(n_items[m]) # Key(n_items[k])}
Rank(k) == Cardinality({m \in FirstOcc : m < k}) + 1
Returned == n_pc \in {"normalized", "rendered"}

\* C1: the list normalize_products returns has no empty asin and no asin
\* twice, and holds, in input order, exactly the first record of every
\* trimmed non-empty asin of the input.
C1_UniqueInFirstOccurrenceOrder ==
    Returned =>
      LET out == n_result.out IN
        /\ \A j \in 1..Len(out) : out[j].asin # <<>>
        /\ \A j, k \in 1..Len(out) : j # k => out[j].asin # out[k].asin
        /\ Len(out) = Cardinality(FirstOcc)
        /\ \A k \in FirstOcc :
             /\ out[Rank(k)].asin = Key(n_items[k])
             /\ out[Rank(k)].name = NameOf(n_items[k])

\* A later record with the same trimmed asin, written differently and with
\* another name, was dropped.
C1_Witness ==
    /\ Returned /\ Len(n_items) = 2 /\ Len(n_result.out) = 1
    /\ Key(n_items[1]) = Key(n_items[2])
    /\ n_items[1].amazon_asin # n_items[2].amazon_asin
    /\ NameOf(n_items[1]) # NameOf(n_items[2])

WellFormedText(v) == v.t \in {"missing", "null", "str"}
WellFormed(it) ==
    /\ it.is_map
    /\ WellFormedText(it.amazon_asin) /\ WellFormedText(it.product_name)
    /\ WellFormedText(it.description) /\ WellFormedText(it.image_url)
    /\ WellFormedText(it.amazon_url)

\* C5: a malformed or partial record never aborts normalize_products, and
\* every well-formed record with an asin is still emitted.
C5_MalformedNeverAborts ==
    n_pc # "input" =>
      /\ n_pc # "crashed"
      /\ \A k \in 1..Len(n_items) :
           (WellFormed(n_items[k]) /\ Key(n_items[k]) # <<>>) =>
             \E j \in 1..Len(n_result.out) :
               n_result.out[j].asin = Key(n_items[k])

Pills(c) == Cardinality({i \in 1..Len(c.tags) : c.tags[i] = SPAN_OPEN})
Trimmed(x) == Strip(PyStr(x))
NonBlankIdx(l) == {i \in 1..Len(l) : Trimmed(l[i]) # <<>>}
NthIdx(S, j) == CHOOSE i \in S : Cardinality({m \in S : m < i}) = j - 1
LongList(it) == it.best_for.t = "list" /\ Len(it.best_for.l) > 2

\* C7 as stated: a best_for list of more than 2 elements is normalized to
\* its first two elements, trimmed, and rendered as exactly 2 pills.
C7_FirstTwoElements ==
    n_pc = "rendered" =>
      \A k \in FirstOcc :
        LongList(n_items[k]) =>
          /\ n_result.out[Rank(k)].best_for =
               <<Trimmed(n_items[k].best_for.l[1]), Trimmed(n_items[k].best_for.l[2])>>
          /\ Pills(n_cards[Rank(k)]) = 2

\* C7 amended: a best_for list of more than 2 elements is normalized to the
\* first two of its elements that are non-blank after str() and trimming
\* (to all of them when fewer than two are), with one pill for each; no
\* record has more than 2 normalized tags or more than 2 pills.
C7_FirstTwoNonBlank ==
    n_pc = "rendered" =>
      /\ \A k \in FirstOcc :
           LongList(n_items[k]) =>
             LET l == n_items[k].best_for.l
                 nb == NonBlankIdx(l)
                 n == IF Cardinality(nb) < 2 THEN Cardinality(nb) ELSE 2
                 bf == n_result.out[Rank(k)].best_for
             IN /\ Len(bf) = n
                /\ \A j \in 1..n : bf[j] = Trimmed(l[NthIdx(nb, j)])
                /\ Pills(n_cards[Rank(k)]) = n
      /\ \A j \in 1..Len(n_result.out) :
           /\ Len(n_result.out[j].best_for) <= 2
           /\ Pills(n_cards[j]) <= 2

\* A list of three elements with a blank one among the first two was
\* normalized to two tags and rendered as two pills.
C7_Witness ==
    /\ n_pc = "rendered" /\ Len(n_items) = 1 /\ LongList(n_items[1])
    /\ Len(n_items[1].best_for.l) = 3
    /\ Trimmed(n_items[1].best_for.l[1]) = <<>>
    /\ Len(n_result.out[1].best_for) = 2
    /\ Pills(n_cards[1]) = 2

(***************************************************************************)
(* Properties of with_affiliate_tag (SpecUrl).                             *)
(***************************************************************************)
\* C2: applying with_affiliate_tag to its own result changes nothing.
C2_Idempotent == u_pc = "twice" => u_twice = u_once

LastValue(q, k) ==
    q[CHOOSE i \in 1..Len(q) : q[i].k = k /\ \A j \in (i + 1)..Len(q) : q[j].k # k].v

\* The query of the result has the key tag once, with the partner tag, and
\* every other key of the input with its last value.
QueryRetagged ==
    \A qa \in {parse_qsl(urlparse(u_url).query)},
       qb \in {parse_qsl(urlparse(u_once).query)} :
       /\ Cardinality({i \in 1..Len(qb) : qb[i].k = TAG}) = 1
       /\ \A i \in 1..Len(qb) : qb[i].k = TAG => qb[i].v = u_tag
       /\ \A i \in 1..Len(qa) :
            qa[i].k # TAG =>
              \E j \in 1..Len(qb) :
                qb[j].k = qa[i].k /\ qb[j].v = LastValue(qa, qa[i].k)

\* Scheme, authority, path and fragment of the result are those of the input.
ComponentsKept ==
    \A a \in {urlparse(u_url)}, b \in {urlparse(u_once)} :
       /\ b.scheme = a.scheme /\ b.netloc = a.netloc
       /\ b.path = a.path /\ b.fragment = a.fragment

\* C3: the result carries tag exactly once with the partner tag, keeps every
\* other query key with its value, and keeps scheme, authority, path and
\* fragment.
C3_TagSetRestKept ==
    u_pc \in {"once", "twice"} => QueryRetagged /\ ComponentsKept

(***************************************************************************)
(* Properties of esc and of the texts of the page (SpecEsc).               *)
(***************************************************************************)
EscChar(c) ==
    CASE c = "&" -> AMP [] c = "<" -> LT [] c = ">" -> GT
      [] c = "\"" -> QUOT [] c = "'" -> APOS [] OTHER -> <<c>>
EscOnce(s) == Concat([k \in 1..Len(s) |-> EscChar(s[k])])

Entities == {AMP, LT, GT, QUOT, APOS}
NoRaw(h) ==
    /\ \A i \in 1..Len(h) : h[i] \notin {"<", ">", "\"", "'"}
    /\ \A i \in 1..Len(h) :
         h[i] = "&" =>
           \E e \in Entities :
             i + Len(e) - 1 <= Len(h) /\ SubSeq(h, i, i + Len(e) - 1) = e

\* html is text with every character escaped exactly once
Escaped(text, html) == html = EscOnce(text) /\ NoRaw(html)

EscText == Strip(e_cfg.title.s)
EscIntro ==
    IF EscText = <<>> THEN <<>>
    ELSE <<P_OPEN>> \o EscOnce(EscText) \o <<P_CLOSE, NEWLINE, P_META_OPEN>>
         \o EscOnce(EscText) \o <<P_CLOSE>>

\* C8: every user-supplied text of the page (title, description, intro
\* paragraphs, meta note, product name, product description, tag pills,
\* image src, affiliate href) is embedded with each character escaped
\* exactly once: no raw < > " ' and no & outside the five entities.
C8_TextsEscapedOnce ==
    e_pc = "rendered" =>
      LET c == load_defaults(e_cfg)
          p == e_products[1]
          k == e_page.cards[1]
      IN /\ Escaped(Title(c), e_page.title) /\ Escaped(Title(c), e_page.h1)
         /\ Escaped(Description(c), e_page.desc)
         /\ e_page.intro = EscIntro /\ NoRaw(e_page.intro)
         /\ Escaped(p.name, k.name) /\ Escaped(p.name, k.img_alt)
         /\ Escaped(p.description, k.desc)
         /\ Escaped(IF p.image_url = <<>> THEN PLACEHOLDER ELSE p.image_url, k.img_src)
         /\ Escaped(with_affiliate_tag(p.amazon_url, <<"t1">>), k.href)
         /\ NoRaw(k.tags)
         /\ \A j \in 1..Len(p.best_for) :
              \E i \in 1..Len(k.tags) :
                /\ k.tags[i] = SPAN_OPEN
                /\ SubSeq(k.tags, i + 1, i + Len(EscOnce(p.best_for[j])) + 1)
                     = EscOnce(p.best_for[j]) \o <<SPAN_CLOSE>>

\* A page was rendered from a text that holds both an ampersand and a "<".
C8_Witness ==
    /\ e_pc = "rendered"
    /\ {"&", "<"} \subseteq Range(e_cfg.title.s)
    /\ "&" \in Range(e_page.cards[1].name)

(***************************************************************************)
(* Properties of a run of main (Spec).                                     *)
(***************************************************************************)
FetchFailures ==
    {"mkdir_failed", "exception", "bad_status", "empty_body", "write_failed"}

\* C4: with caching on and a non-empty remote URL, a failed resolution
\* (transport exception, non-200 status, empty body, failure to create the
\* images directory or to write the file) returns the remote URL, raises
\* nothing and writes no file.
C4_FailureFallsBack ==
    last_fetch.outcome \in FetchFailures =>
      /\ ~last_fetch.raised
      /\ last_fetch.returned = last_fetch.url
      /\ ~last_fetch.wrote

BadTag ==
    env_tag.t = "missing" \/ \A i \in 1..Len(env_tag.s) : env_tag.s[i] \in Whitespace
BadConfig == config_file \in {"missing", "invalid"}
Untouched ==
    /\ http_log = <<>> /\ img_files = {}
    /\ index_html.kind \in PriorKinds /\ products_json.kind \in PriorKinds

\* C6: without a partner tag (absent, empty, blank) or without a readable
\* JSON config the run never gets past the check that fails, ends with a
\* non-zero exit status, and has issued no request and written no file; a
\* run without a partner tag has not read the config file.
C6_FatalBeforeSideEffects ==
    /\ BadTag => pc \in {"start", "aborted"} /\ ~cfg_read /\ Untouched
    /\ BadConfig => pc \in {"start", "load", "aborted"} /\ Untouched
    /\ (BadTag \/ BadConfig) /\ pc = "aborted" => exit_code # 0

\* A run whose partner tag is only whitespace was aborted, the files of an
\* earlier run still in place.
C6_Witness ==
    /\ env_tag = Str(<<" ">>) /\ config_file = "ok" /\ CACHE_IMAGES
    /\ pc = "aborted" /\ exit_code = 1
    /\ index_html.kind = "old"

Requests(k) == Cardinality({i \in 1..Len(http_log) : http_log[i].k = k})
RunEnded == pc \in {"done", "aborted"}

\* C9: every normalized product has at most one request; requests come in
\* the order of the products; and when the run has ended, a product has
\* one request if caching is on and its image_url is non-empty, and none
\* otherwise.
C9_OneRequestPerImage ==
    /\ \A k \in 1..Len(products) : Requests(k) <= 1
    /\ \A i, j \in 1..Len(http_log) : i < j => http_log[i].k < http_log[j].k
    /\ \A i \in 1..Len(http_log) :
         /\ http_log[i].k \in 1..Len(products)
         /\ http_log[i].url = products[http_log[i].k].image_url
    /\ RunEnded =>
         \A k \in 1..Len(products) :
           Requests(k) = IF CACHE_IMAGES /\ products[k].image_url # <<>>
                         THEN 1 ELSE 0

AllCardsBuilt == Len(cards) = Len(products) /\ idx = Len(products) + 1

\* The order of the two writes: no output file is touched before every card
\* is built, and products.json holds this run's snapshot only when
\* index.html holds this run's page.
WritesInOrder ==
    /\ (index_html.kind \notin PriorKinds \/ products_json.kind \notin PriorKinds)
         => AllCardsBuilt /\ pc \in {"write_json", "done", "aborted"}
    /\ products_json.kind \notin PriorKinds => index_html.kind = "page"
    /\ products_json.kind = "snapshot" =>
         /\ index_html.page = Page(cfg, cards, UPDATED)
         /\ products_json.products = products
    /\ pc = "done" <=> products_json.kind = "snapshot"

\* C10 as stated: the writes are in order, and a failed write of
\* products.json leaves index.html written and products.json with its
\* previous content, the process aborted.
C10_JsonFailureKeepsPrevious ==
    /\ WritesInOrder
    /\ failure = "json_write" =>
         /\ pc = "aborted" /\ exit_code # 0
         /\ index_html.kind = "page"
         /\ products_json.kind \in PriorKinds

\* C10 amended: the writes are in order, and a failed write of
\* products.json leaves index.html written and products.json with its
\* previous content or, when the write failed after the file was opened,
\* truncated or partial - never with this run's snapshot -, the process
\* aborted.
C10_JsonFailureNoSnapshot ==
    /\ WritesInOrder
    /\ failure = "json_write" =>
         /\ pc = "aborted" /\ exit_code # 0
         /\ index_html.kind = "page"
         /\ products_json.kind \in PriorKinds \cup {"partial"}

\* The write of products.json failed after index.html was written over the
\* page of an earlier run, with an image fetched before.
C10_Witness ==
    /\ failure = "json_write" /\ pc = "aborted"
    /\ index_html.kind = "page" /\ products_json.kind = "old"
    /\ Len(http_log) > 0 /\ Len(index_html.page.cards) = Len(products)
====
